---- MODULE Spec2Model ----
(***************************************************************************)
(* The per-patient retrieval index of src/app/rag.py: the padding of       *)
(* embeddings to one width, the chunker, the file-backed store of one      *)
(* vector index and one metadata log per patient, and the add / search /   *)
(* stats operations, each a load -> mutate -> save sequence of steps.      *)
(***************************************************************************)
EXTENDS Integers, Sequences, FiniteSets, TLC

VARIABLES
    TEXT_DIM,   \* rag.py:14, the text model's width, fixed at process start
    idxFile,    \* patient -> the file faiss_indexes/<patient>.index
    metaFile,   \* patient -> the file faiss_indexes/<patient>_meta.json
    pc,         \* worker -> where its call stands
    call,       \* worker -> the operation it runs and its arguments
    index,      \* worker -> the local `index` of the running call
    metadata,   \* worker -> the local `metadata` of the running call
    ret,        \* worker -> what the call returned or raised
    before,     \* worker -> the patient's two files when the call began (history)
    found,      \* worker -> the locals `distances, indices` of a running search
    unit,       \* one call of a pure helper: its arguments, locals and result
    rows        \* the ids of the rows of the relational table of reports

vars == <<TEXT_DIM, idxFile, metaFile, pc, call, index, metadata, ret, before, found, unit,
          rows>>

----------------------------------------------------------------------------
(* Sizes of the model. The widths stand for 384 (MiniLM), 512 (CLIP) and a *)
(* wider text model of a later deployment; the chunk window stands for     *)
(* max_chars=800, overlap=100.                                             *)

MINILM_DIM == 2
IMAGE_DIM == 3
WIDER_TEXT_DIM == 4
DEFAULT_MAX_CHARS == 4
DEFAULT_OVERLAP == 1
MaxEntries == 3
MaxTopK == 4
MaxConcEntries == 2

PATIENTS == {"p1", "p2"}
REPORT_IDS == {1, 2}

Max(a, b) == IF a >= b THEN a ELSE b
Min(a, b) == IF a <= b THEN a ELSE b

\* rag.py:20
EMBED_DIM == Max(TEXT_DIM, IMAGE_DIM)

----------------------------------------------------------------------------
(* Strings are sequences of one-character strings; " " is the whitespace.  *)

IsSpace(c) == c = " "

RECURSIVE LStrip(_)
LStrip(s) == IF s # <<>> /\ IsSpace(Head(s)) THEN LStrip(Tail(s)) ELSE s

RECURSIVE RStrip(_)
RStrip(s) ==
    IF s # <<>> /\ IsSpace(s[Len(s)]) THEN RStrip(SubSeq(s, 1, Len(s) - 1)) ELSE s

\* str.strip()
Strip(s) == RStrip(LStrip(s))

\* s[a:b] for 0 <= a, b
Slice(s, a, b) == SubSeq(s, a + 1, Min(b, Len(s)))

Zeros(n) == [i \in 1..n |-> 0]

\* _pad_vector keeping the last EMBED_DIM elements of a longer vector
_pad_vector_KeepsTail(vec) ==
    IF Len(vec) = EMBED_DIM THEN vec
    ELSE IF Len(vec) > EMBED_DIM THEN SubSeq(vec, Len(vec) - EMBED_DIM + 1, Len(vec))
    ELSE vec \o Zeros(EMBED_DIM - Len(vec))

\* rag.py:22-31
_pad_vector(vec) ==
    IF Len(vec) = EMBED_DIM THEN vec
    ELSE IF Len(vec) > EMBED_DIM THEN SubSeq(vec, 1, EMBED_DIM)
    ELSE vec \o Zeros(EMBED_DIM - Len(vec))

\* Step with the overlap left out
Step_NoOverlap(max_chars, overlap) == max_chars

\* rag.py:73-75
Step(max_chars, overlap) ==
    IF max_chars - overlap <= 0 THEN max_chars ELSE max_chars - overlap

\* rag.py:79-88, the while loop from `start` on
RECURSIVE ChunkLoop(_, _, _, _, _)
ChunkLoop(text, max_chars, step, start, chunks) ==
    IF ~(start < Len(text)) THEN chunks
    ELSE LET end == Min(start + max_chars, Len(text))
             chunk == Slice(text, start, end)
             chunks2 == IF Strip(chunk) # <<>>
                        THEN Append(chunks, Strip(chunk)) ELSE chunks
         IN  IF end >= Len(text) THEN chunks2
             ELSE ChunkLoop(text, max_chars, step, start + step, chunks2)

\* rag.py:65-90
_chunk_text(text, max_chars, overlap) ==
    IF text = <<>> THEN <<>>
    ELSE LET t == Strip(text)
         IN  IF t = <<>> THEN <<>>
             ELSE ChunkLoop(t, max_chars, Step(max_chars, overlap), 0, <<>>)

\* rag.py:98, _chunk_text(text) with the default window
Chunks(text) == _chunk_text(text, DEFAULT_MAX_CHARS, DEFAULT_OVERLAP)

----------------------------------------------------------------------------
(* The text model (rag.py:13): a fixed function from a string to a vector  *)
(* of TEXT_DIM numbers. The same string always gives the same vector.      *)

CharCode(ch) ==
    CASE ch = "a" -> 1 [] ch = "b" -> 2 [] ch = "c" -> 3
      [] ch = "d" -> 4 [] ch = "e" -> 5 [] OTHER -> 0

RECURSIVE Feature(_, _, _)
Feature(c, i, n) ==
    IF n = 0 THEN 0
    ELSE Feature(c, i, n - 1)
         + (IF ((n - 1) % TEXT_DIM) + 1 = i THEN CharCode(c[n]) ELSE 0)

\* TEXT_MODEL.encode of one string, rag.py:104 and rag.py:159
Encode(c) == [i \in 1..TEXT_DIM |-> Feature(c, i, Len(c))]

----------------------------------------------------------------------------
(* faiss.IndexFlatL2: a width d and the vectors added so far, in order.    *)

\* faiss.IndexFlatL2(d), rag.py:48
IndexFlatL2(d) == [d |-> d, vecs |-> <<>>]

\* index.ntotal
ntotal(ix) == Len(ix.vecs)

\* IndexAdd adding only the first row of `vectors`
IndexAdd_FirstOnly(ix, vs) == [ix EXCEPT !.vecs = @ \o SubSeq(vs, 1, 1)]

\* index.add(vectors), rag.py:112
IndexAdd(ix, vs) == [ix EXCEPT !.vecs = @ \o vs]

RECURSIVE SqDist(_, _, _)
SqDist(a, b, n) ==
    IF n = 0 THEN 0
    ELSE SqDist(a, b, n - 1) + (a[n] - b[n]) * (a[n] - b[n])

\* squared Euclidean distance of two vectors of one width
L2(a, b) == SqDist(a, b, Len(a))

\* The label rows index.search(q, k) may return (rag.py:162): the min(k, ntotal)
\* nearest positions by ascending distance, ties in any order, then -1.
SearchOrders(ix, q, k) ==
    LET n == ntotal(ix)
        m == Min(k, n)
        Dist(j) == L2(ix.vecs[j + 1], q)
    IN  { s \in [1..m -> 0..(n - 1)] :
            /\ \A i, j \in 1..m : i < j => s[i] # s[j] /\ Dist(s[i]) <= Dist(s[j])
            /\ \A j \in 0..(n - 1) :
                 (\A i \in 1..m : s[i] # j) => \A i \in 1..m : Dist(s[i]) <= Dist(j) }

\* distances, indices = index.search(q, k), for one of the orders above. The
\* distance beside a -1 label is never read by the callers and is given as -1.
SearchResult(ix, q, k, s) ==
    [indices |-> [i \in 1..k |-> IF i <= Len(s) THEN s[i] ELSE -1],
     distances |-> [i \in 1..k |-> IF i <= Len(s) THEN L2(ix.vecs[s[i] + 1], q) ELSE -1]]

\* index.search asserts d == self.d and k > 0 (faiss's Python wrapper)
SearchRaises(ix, q, k) == Len(q) # ix.d \/ k <= 0

----------------------------------------------------------------------------
(* The two files of a patient, rag.py:34-37.                               *)

AbsentIdx == [kind |-> "absent", d |-> 0, vecs |-> <<>>]
CorruptIdx == [kind |-> "corrupt", d |-> 0, vecs |-> <<>>]
AbsentMeta == [kind |-> "absent", recs |-> <<>>]
CorruptMeta == [kind |-> "corrupt", recs |-> <<>>]

\* faiss.write_index(index, index_path), rag.py:60
WrittenIdx(ix) == [kind |-> "index", d |-> ix.d, vecs |-> ix.vecs]

\* json.dump(metadata, f), rag.py:61-62: a list of dicts of str keys with int
\* and str values, which json.load gives back as it was
WrittenMeta(md) == [kind |-> "json", recs |-> md]

\* BothExist with `or` for `and`
BothExist_Either(p) == idxFile[p].kind # "absent" \/ metaFile[p].kind # "absent"

\* os.path.exists(index_path) and os.path.exists(meta_path), rag.py:43
BothExist(p) == idxFile[p].kind # "absent" /\ metaFile[p].kind # "absent"

\* ReadIndex with a fresh index of the text model's width
ReadIndex_TextWidth(p) ==
    IF BothExist(p) /\ idxFile[p].kind = "index"
    THEN [d |-> idxFile[p].d, vecs |-> idxFile[p].vecs]
    ELSE IndexFlatL2(TEXT_DIM)

\* rag.py:44-48 and 52: faiss.read_index, or a fresh index when it raises
\* or when a file is missing
ReadIndex(p) ==
    IF BothExist(p) /\ idxFile[p].kind = "index"
    THEN [d |-> idxFile[p].d, vecs |-> idxFile[p].vecs]
    ELSE IndexFlatL2(EMBED_DIM)

----------------------------------------------------------------------------
(* Values of an idle worker.                                               *)

NoneEmb == [none |-> TRUE, vec |-> <<>>]
Emb(v) == [none |-> FALSE, vec |-> v]

NoCall == [op |-> "none", patient |-> "p1", report_id |-> 0, text |-> <<>>,
           embedding |-> NoneEmb, top_k |-> 0]
NoIndex == [d |-> 0, vecs |-> <<>>]
NoStats == [ntotal_vectors |-> 0, metadata_len |-> 0]
NoRet == [status |-> "none", error |-> "none", results |-> <<>>, stats |-> NoStats]
NoBefore == [idx |-> AbsentIdx, meta |-> AbsentMeta]
NoFound == [distances |-> <<>>, indices |-> <<>>]
NoUnit == [fn |-> "none", pc |-> "none", vec |-> <<>>, out |-> <<>>,
           arg |-> <<>>, text |-> <<>>, max_chars |-> 0, overlap |-> 0,
           step |-> 0, start |-> 0, windows |-> <<>>, chunks |-> <<>>]

\* a call that returned normally
Returned(results, stats) ==
    [status |-> "ok", error |-> "none", results |-> results, stats |-> stats]
\* a call that ended in the exception `error`
Raised(error) ==
    [status |-> "raised", error |-> error, results |-> <<>>, stats |-> NoStats]

\* "(IMAGE EMBEDDING)", rag.py:147
IMAGE_PLACEHOLDER ==
    <<"(", "I", "M", "A", "G", "E", " ", "E", "M", "B", "E", "D", "D", "I", "N", "G", ")">>

----------------------------------------------------------------------------
(* The arguments the callers pass.                                         *)

IMAGE_VEC == [i \in 1..IMAGE_DIM |-> i]

TEXTS == { <<>>, <<" ">>, <<"a", "b">>, <<"a", "b", " ", "c", "d", " ", "e">> }
QUERIES == { <<"a", "b">>, <<"c", "d", " ", "e">> }
VECTORS == { <<>>, <<7>>, IMAGE_VEC }
EMBEDDINGS == {NoneEmb, Emb(<<>>), Emb(IMAGE_VEC)}
TOP_KS == {0, 1, 2, MaxTopK}

\* the larger of the persisted vector count and metadata length of a patient
StoredLen(p) == Max(Len(idxFile[p].vecs), Len(metaFile[p].recs))

Snapshot(p) == [idx |-> idxFile[p], meta |-> metaFile[p]]

Idle(w) == pc[w] = "idle"

----------------------------------------------------------------------------
(* _load_or_create_index, rag.py:40-55, in two steps: the existence test   *)
(* with the read of the index file, then the read of the metadata file.    *)

\* LoadIndex writing an empty store for a patient that has none
LoadIndex_CreatesStore(w) ==
    /\ pc[w] = "load_index"
    /\ LET p == call[w].patient IN
         /\ index' = [index EXCEPT ![w] = ReadIndex(p)]
         /\ IF BothExist(p)
            THEN /\ pc' = [pc EXCEPT ![w] = "load_meta"]
                 /\ UNCHANGED <<metadata, idxFile, metaFile>>
            ELSE /\ pc' = [pc EXCEPT ![w] = "loaded"]
                 /\ metadata' = [metadata EXCEPT ![w] = <<>>]
                 /\ idxFile' = [idxFile EXCEPT ![p] = WrittenIdx(IndexFlatL2(EMBED_DIM))]
                 /\ metaFile' = [metaFile EXCEPT ![p] = WrittenMeta(<<>>)]
    /\ UNCHANGED <<TEXT_DIM, call, ret, before, found, unit, rows>>

\* rag.py:41-48, 51-53
LoadIndex(w) ==
    /\ pc[w] = "load_index"
    /\ LET p == call[w].patient IN
         /\ index' = [index EXCEPT ![w] = ReadIndex(p)]
         /\ IF BothExist(p)
            THEN /\ pc' = [pc EXCEPT ![w] = "load_meta"]
                 /\ UNCHANGED metadata
            ELSE /\ pc' = [pc EXCEPT ![w] = "loaded"]
                 /\ metadata' = [metadata EXCEPT ![w] = <<>>]
    /\ UNCHANGED <<TEXT_DIM, idxFile, metaFile, call, ret, before, found, unit, rows>>

\* rag.py:49-50: open + json.load; both raise on a missing or unparsable file
LoadMeta(w) ==
    /\ pc[w] = "load_meta"
    /\ LET p == call[w].patient IN
         IF metaFile[p].kind = "json"
         THEN /\ metadata' = [metadata EXCEPT ![w] = metaFile[p].recs]
              /\ pc' = [pc EXCEPT ![w] = "loaded"]
              /\ UNCHANGED ret
         ELSE /\ pc' = [pc EXCEPT ![w] = "done"]
              /\ ret' = [ret EXCEPT ![w] = Raised("json.load")]
              /\ UNCHANGED metadata
    /\ UNCHANGED <<TEXT_DIM, idxFile, metaFile, call, index, before, found, unit, rows>>

----------------------------------------------------------------------------
(* _save_index_and_meta, rag.py:58-62, in two steps: one per file.         *)

\* SaveIndex writing every patient's index to one path
SaveIndex_OnePath(w) ==
    /\ pc[w] = "save_index"
    /\ idxFile' = [idxFile EXCEPT !["p1"] = WrittenIdx(index[w])]
    /\ pc' = [pc EXCEPT ![w] = "save_meta"]
    /\ UNCHANGED <<TEXT_DIM, metaFile, call, index, metadata, ret, before, found, unit, rows>>

\* rag.py:60
SaveIndex(w) ==
    /\ pc[w] = "save_index"
    /\ idxFile' = [idxFile EXCEPT ![call[w].patient] = WrittenIdx(index[w])]
    /\ pc' = [pc EXCEPT ![w] = "save_meta"]
    /\ UNCHANGED <<TEXT_DIM, metaFile, call, index, metadata, ret, before, found, unit, rows>>

\* rag.py:61-62, and the return of the add operation
SaveMeta(w) ==
    /\ pc[w] = "save_meta"
    /\ metaFile' = [metaFile EXCEPT ![call[w].patient] = WrittenMeta(metadata[w])]
    /\ pc' = [pc EXCEPT ![w] = "done"]
    /\ ret' = [ret EXCEPT ![w] = Returned(<<>>, NoStats)]
    /\ UNCHANGED <<TEXT_DIM, idxFile, call, index, metadata, before, found, unit, rows>>

----------------------------------------------------------------------------
(* add_text_to_index, rag.py:94-123.                                       *)

\* TextRecords numbering the chunks from base + 1
TextRecords_OneBased(md, report_id, chunks) ==
    md \o [i \in 1..Len(chunks) |->
             [chunk_id |-> Len(md) + i, report_id |-> report_id,
              type |-> "text", text |-> chunks[i]]]

\* the records of rag.py:114-121 for `chunks`, appended to `md`
TextRecords(md, report_id, chunks) ==
    md \o [i \in 1..Len(chunks) |->
             [chunk_id |-> Len(md) + (i - 1), report_id |-> report_id,
              type |-> "text", text |-> chunks[i]]]

\* rag.py:104-105
PaddedEmbeddings(chunks) == [i \in 1..Len(chunks) |-> _pad_vector(Encode(chunks[i]))]

\* rag.py:108-110
EnsureDim(ix) == IF ix.d # EMBED_DIM THEN IndexFlatL2(EMBED_DIM) ELSE ix

\* rag.py:98-102: the call, the chunking and the early return
CallAddText(w, p, report_id, text) ==
    /\ Idle(w)
    /\ StoredLen(p) + Len(Chunks(text)) <= MaxEntries
    /\ call' = [call EXCEPT ![w] = [NoCall EXCEPT !.op = "add_text", !.patient = p,
                                       !.report_id = report_id, !.text = text]]
    /\ before' = [before EXCEPT ![w] = Snapshot(p)]
    /\ IF Chunks(text) = <<>>
       THEN /\ pc' = [pc EXCEPT ![w] = "done"]
            /\ ret' = [ret EXCEPT ![w] = Returned(<<>>, NoStats)]
       ELSE /\ pc' = [pc EXCEPT ![w] = "load_index"]
            /\ UNCHANGED ret
    /\ UNCHANGED <<TEXT_DIM, idxFile, metaFile, index, metadata, found, unit, rows>>

\* rag.py:104-121
AddTextMutate(w) ==
    /\ pc[w] = "loaded"
    /\ call[w].op = "add_text"
    /\ LET chunks == Chunks(call[w].text) IN
         /\ index' = [index EXCEPT ![w] = IndexAdd(EnsureDim(index[w]), PaddedEmbeddings(chunks))]
         /\ metadata' = [metadata EXCEPT ![w] = TextRecords(metadata[w], call[w].report_id, chunks)]
    /\ pc' = [pc EXCEPT ![w] = "save_index"]
    /\ UNCHANGED <<TEXT_DIM, idxFile, metaFile, call, ret, before, found, unit, rows>>

----------------------------------------------------------------------------
(* add_image_to_index, rag.py:127-150.                                     *)

\* ImageRecord skipping a report that already has an image record
ImageRecord_Dedup(md, report_id) ==
    IF \E i \in 1..Len(md) : md[i].type = "image" /\ md[i].report_id = report_id
    THEN md
    ELSE Append(md, [chunk_id |-> Len(md), report_id |-> report_id,
                     type |-> "image", text |-> IMAGE_PLACEHOLDER])

\* rag.py:143-148
ImageRecord(md, report_id) ==
    Append(md, [chunk_id |-> Len(md), report_id |-> report_id,
                type |-> "image", text |-> IMAGE_PLACEHOLDER])

\* CallAddImage without the test for None
CallAddImage_NoNoneTest(w, p, report_id, embedding) ==
    /\ Idle(w)
    /\ StoredLen(p) + 1 <= MaxEntries
    /\ call' = [call EXCEPT ![w] = [NoCall EXCEPT !.op = "add_image", !.patient = p,
                                       !.report_id = report_id, !.embedding = embedding]]
    /\ before' = [before EXCEPT ![w] = Snapshot(p)]
    /\ pc' = [pc EXCEPT ![w] = "load_index"]
    /\ UNCHANGED <<TEXT_DIM, idxFile, metaFile, index, metadata, ret, found, unit, rows>>

\* rag.py:131-134
CallAddImage(w, p, report_id, embedding) ==
    /\ Idle(w)
    /\ StoredLen(p) + 1 <= MaxEntries
    /\ call' = [call EXCEPT ![w] = [NoCall EXCEPT !.op = "add_image", !.patient = p,
                                       !.report_id = report_id, !.embedding = embedding]]
    /\ before' = [before EXCEPT ![w] = Snapshot(p)]
    /\ IF embedding.none
       THEN /\ pc' = [pc EXCEPT ![w] = "done"]
            /\ ret' = [ret EXCEPT ![w] = Returned(<<>>, NoStats)]
       ELSE /\ pc' = [pc EXCEPT ![w] = "load_index"]
            /\ UNCHANGED ret
    /\ UNCHANGED <<TEXT_DIM, idxFile, metaFile, index, metadata, found, unit, rows>>

\* rag.py:136-148
AddImageMutate(w) ==
    /\ pc[w] = "loaded"
    /\ call[w].op = "add_image"
    /\ index' = [index EXCEPT ![w] =
                   IndexAdd(EnsureDim(index[w]), <<_pad_vector(call[w].embedding.vec)>>)]
    /\ metadata' = [metadata EXCEPT ![w] = ImageRecord(metadata[w], call[w].report_id)]
    /\ pc' = [pc EXCEPT ![w] = "save_index"]
    /\ UNCHANGED <<TEXT_DIM, idxFile, metaFile, call, ret, before, found, unit, rows>>

----------------------------------------------------------------------------
(* search_patient_index, rag.py:154-169, and search_by_vector, 173-192.    *)

\* InRange with the lower bound written 0 < idx
InRange_SkipsZero(indices, md) ==
    SelectSeq(indices, LAMBDA idx : 0 < idx /\ idx < Len(md))

\* InRange with the last record left out
InRange_DropsLast(indices, md) ==
    SelectSeq(indices, LAMBDA idx : 0 <= idx /\ idx < Len(md) - 1)

\* rag.py:166 and 186: the labels that pass 0 <= idx < len(metadata), in order
InRange(indices, md) == SelectSeq(indices, LAMBDA idx : 0 <= idx /\ idx < Len(md))

\* TextResults without the test 0 <= idx: metadata[-1] is the last record
TextResults_NegativeWraps(res, md) ==
    LET kept == SelectSeq(res.indices, LAMBDA idx : idx < Len(md))
    IN  [i \in 1..Len(kept) |-> IF kept[i] < 0 THEN md[Len(md)] ELSE md[kept[i] + 1]]

\* rag.py:164-167
TextResults(res, md) ==
    LET kept == InRange(res.indices, md)
    IN  [i \in 1..Len(kept) |-> md[kept[i] + 1]]

\* list(indices[0]).index(idx), rag.py:190: the first place idx stands at
FirstIndexOf(indices, idx) ==
    CHOOSE i \in 1..Len(indices) :
        indices[i] = idx /\ \A j \in 1..(i - 1) : indices[j] # idx

\* VectorResults reading distances[0] at the place of the result, not of the label
VectorResults_ByResultPlace(res, md) ==
    LET kept == InRange(res.indices, md)
    IN  [i \in 1..Len(kept) |->
           LET entry == md[kept[i] + 1]
           IN  [distance |-> res.distances[i],
                chunk_id |-> entry.chunk_id, report_id |-> entry.report_id,
                type |-> entry.type, text |-> entry.text]]

\* rag.py:184-190
VectorResults(res, md) ==
    LET kept == InRange(res.indices, md)
    IN  [i \in 1..Len(kept) |->
           LET entry == md[kept[i] + 1]
           IN  [distance |-> res.distances[FirstIndexOf(res.indices, kept[i])],
                chunk_id |-> entry.chunk_id, report_id |-> entry.report_id,
                type |-> entry.type, text |-> entry.text]]

\* IsEmptyStore with `and` for `or`
IsEmptyStore_And(ix, md) == ntotal(ix) = 0 /\ md = <<>>

\* rag.py:156 and 178
IsEmptyStore(ix, md) == ntotal(ix) = 0 \/ md = <<>>

\* rag.py:154-155
CallSearch(w, p, query, top_k) ==
    /\ Idle(w)
    /\ call' = [call EXCEPT ![w] = [NoCall EXCEPT !.op = "search_text", !.patient = p,
                                       !.text = query, !.top_k = top_k]]
    /\ before' = [before EXCEPT ![w] = Snapshot(p)]
    /\ pc' = [pc EXCEPT ![w] = "load_index"]
    /\ UNCHANGED <<TEXT_DIM, idxFile, metaFile, index, metadata, ret, found, unit, rows>>

\* rag.py:156-169
SearchText(w) ==
    /\ pc[w] = "loaded"
    /\ call[w].op = "search_text"
    /\ pc' = [pc EXCEPT ![w] = "done"]
    /\ LET qvec == _pad_vector(Encode(call[w].text))
           k == call[w].top_k
       IN  IF IsEmptyStore(index[w], metadata[w])
           THEN ret' = [ret EXCEPT ![w] = Returned(<<>>, NoStats)] /\ UNCHANGED found
           ELSE IF SearchRaises(index[w], qvec, k)
           THEN ret' = [ret EXCEPT ![w] = Raised("index.search")] /\ UNCHANGED found
           ELSE \E s \in SearchOrders(index[w], qvec, k) :
                  /\ found' = [found EXCEPT ![w] = SearchResult(index[w], qvec, k, s)]
                  /\ ret' = [ret EXCEPT ![w] =
                              Returned(TextResults(found'[w], metadata[w]), NoStats)]
    /\ UNCHANGED <<TEXT_DIM, idxFile, metaFile, call, index, metadata, before, unit, rows>>

\* rag.py:173-177
CallSearchByVector(w, p, vector, top_k) ==
    /\ Idle(w)
    /\ call' = [call EXCEPT ![w] = [NoCall EXCEPT !.op = "search_vector", !.patient = p,
                                       !.embedding = Emb(vector), !.top_k = top_k]]
    /\ before' = [before EXCEPT ![w] = Snapshot(p)]
    /\ pc' = [pc EXCEPT ![w] = "load_index"]
    /\ UNCHANGED <<TEXT_DIM, idxFile, metaFile, index, metadata, ret, found, unit, rows>>

\* rag.py:178-192
SearchVector(w) ==
    /\ pc[w] = "loaded"
    /\ call[w].op = "search_vector"
    /\ pc' = [pc EXCEPT ![w] = "done"]
    /\ LET q == _pad_vector(call[w].embedding.vec)
           k == call[w].top_k
       IN  IF IsEmptyStore(index[w], metadata[w])
           THEN ret' = [ret EXCEPT ![w] = Returned(<<>>, NoStats)] /\ UNCHANGED found
           ELSE IF SearchRaises(index[w], q, k)
           THEN ret' = [ret EXCEPT ![w] = Raised("index.search")] /\ UNCHANGED found
           ELSE \E s \in SearchOrders(index[w], q, k) :
                  /\ found' = [found EXCEPT ![w] = SearchResult(index[w], q, k, s)]
                  /\ ret' = [ret EXCEPT ![w] =
                              Returned(VectorResults(found'[w], metadata[w]), NoStats)]
    /\ UNCHANGED <<TEXT_DIM, idxFile, metaFile, call, index, metadata, before, unit, rows>>

----------------------------------------------------------------------------
(* get_patient_index_stats, rag.py:195-201.                                *)

\* rag.py:195-196
CallStats(w, p) ==
    /\ Idle(w)
    /\ call' = [call EXCEPT ![w] = [NoCall EXCEPT !.op = "stats", !.patient = p]]
    /\ before' = [before EXCEPT ![w] = Snapshot(p)]
    /\ pc' = [pc EXCEPT ![w] = "load_index"]
    /\ UNCHANGED <<TEXT_DIM, idxFile, metaFile, index, metadata, ret, found, unit, rows>>

\* rag.py:197-201
Stats(w) ==
    /\ pc[w] = "loaded"
    /\ call[w].op = "stats"
    /\ pc' = [pc EXCEPT ![w] = "done"]
    /\ ret' = [ret EXCEPT ![w] =
                 Returned(<<>>, [ntotal_vectors |-> ntotal(index[w]),
                                 metadata_len |-> Len(metadata[w])])]
    /\ UNCHANGED <<TEXT_DIM, idxFile, metaFile, call, index, metadata, before, found, unit, rows>>

\* the caller takes the result; the call's locals are gone
Return(w) ==
    /\ pc[w] = "done"
    /\ pc' = [pc EXCEPT ![w] = "idle"]
    /\ call' = [call EXCEPT ![w] = NoCall]
    /\ index' = [index EXCEPT ![w] = NoIndex]
    /\ metadata' = [metadata EXCEPT ![w] = <<>>]
    /\ ret' = [ret EXCEPT ![w] = NoRet]
    /\ before' = [before EXCEPT ![w] = NoBefore]
    /\ found' = [found EXCEPT ![w] = NoFound]
    /\ UNCHANGED <<TEXT_DIM, idxFile, metaFile, unit, rows>>

----------------------------------------------------------------------------
(* What the environment does to a call or, between calls, to the files.    *)

WORKERS == {1, 2}

AllIdle == \A w \in WORKERS : Idle(w)

\* EncodeFails with the error caught and the call returning as if done
EncodeFails_Swallowed(w) ==
    /\ pc[w] = "loaded"
    /\ \/ call[w].op = "add_text"
       \/ call[w].op = "search_text" /\ ~IsEmptyStore(index[w], metadata[w])
    /\ pc' = [pc EXCEPT ![w] = "done"]
    /\ ret' = [ret EXCEPT ![w] = Returned(<<>>, NoStats)]
    /\ UNCHANGED <<TEXT_DIM, idxFile, metaFile, call, index, metadata, before, found, unit, rows>>

\* TEXT_MODEL.encode raises, rag.py:104 or rag.py:159 (past the test of 156)
EncodeFails(w) ==
    /\ pc[w] = "loaded"
    /\ \/ call[w].op = "add_text"
       \/ call[w].op = "search_text" /\ ~IsEmptyStore(index[w], metadata[w])
    /\ pc' = [pc EXCEPT ![w] = "done"]
    /\ ret' = [ret EXCEPT ![w] = Raised("encode")]
    /\ UNCHANGED <<TEXT_DIM, idxFile, metaFile, call, index, metadata, before, found, unit, rows>>

\* the save stops between rag.py:60 and rag.py:61 (open or json.dump raises,
\* or the process dies)
SaveInterrupted(w) ==
    /\ pc[w] = "save_meta"
    /\ pc' = [pc EXCEPT ![w] = "done"]
    /\ ret' = [ret EXCEPT ![w] = Raised("save")]
    /\ UNCHANGED <<TEXT_DIM, idxFile, metaFile, call, index, metadata, before, found, unit, rows>>

\* the index file becomes unreadable for faiss.read_index
CorruptIndexFile(p) ==
    /\ AllIdle
    /\ idxFile[p].kind = "index"
    /\ idxFile' = [idxFile EXCEPT ![p] = CorruptIdx]
    /\ UNCHANGED <<TEXT_DIM, metaFile, pc, call, index, metadata, ret, before, found, unit, rows>>

\* the metadata file becomes unparsable for json.load
CorruptMetaFile(p) ==
    /\ AllIdle
    /\ metaFile[p].kind = "json"
    /\ metaFile' = [metaFile EXCEPT ![p] = CorruptMeta]
    /\ UNCHANGED <<TEXT_DIM, idxFile, pc, call, index, metadata, ret, before, found, unit, rows>>

RemoveIndexFile(p) ==
    /\ AllIdle
    /\ idxFile[p].kind # "absent"
    /\ idxFile' = [idxFile EXCEPT ![p] = AbsentIdx]
    /\ UNCHANGED <<TEXT_DIM, metaFile, pc, call, index, metadata, ret, before, found, unit, rows>>

RemoveMetaFile(p) ==
    /\ AllIdle
    /\ metaFile[p].kind # "absent"
    /\ metaFile' = [metaFile EXCEPT ![p] = AbsentMeta]
    /\ UNCHANGED <<TEXT_DIM, idxFile, pc, call, index, metadata, ret, before, found, unit, rows>>

\* the index file is replaced by a valid index of the current width that
\* holds no vector
EmptyIndexFile(p) ==
    /\ AllIdle
    /\ idxFile[p].kind # "absent"
    /\ idxFile[p] # WrittenIdx(IndexFlatL2(EMBED_DIM))
    /\ idxFile' = [idxFile EXCEPT ![p] = WrittenIdx(IndexFlatL2(EMBED_DIM))]
    /\ UNCHANGED <<TEXT_DIM, metaFile, pc, call, index, metadata, ret, before, found, unit, rows>>

\* the metadata file is replaced by the empty list
EmptyMetaFile(p) ==
    /\ AllIdle
    /\ metaFile[p].kind # "absent"
    /\ metaFile[p] # WrittenMeta(<<>>)
    /\ metaFile' = [metaFile EXCEPT ![p] = WrittenMeta(<<>>)]
    /\ UNCHANGED <<TEXT_DIM, idxFile, pc, call, index, metadata, ret, before, found, unit, rows>>

\* the process restarts with a wider text model: rag.py:13-20 run again
Redeploy ==
    /\ AllIdle
    /\ TEXT_DIM = MINILM_DIM
    /\ TEXT_DIM' = WIDER_TEXT_DIM
    /\ UNCHANGED <<idxFile, metaFile, pc, call, index, metadata, ret, before, found, unit, rows>>

----------------------------------------------------------------------------
(* Specifications.                                                         *)

Init ==
    /\ TEXT_DIM = MINILM_DIM
    /\ idxFile = [p \in PATIENTS |-> AbsentIdx]
    /\ metaFile = [p \in PATIENTS |-> AbsentMeta]
    /\ pc = [w \in WORKERS |-> "idle"]
    /\ call = [w \in WORKERS |-> NoCall]
    /\ index = [w \in WORKERS |-> NoIndex]
    /\ metadata = [w \in WORKERS |-> <<>>]
    /\ ret = [w \in WORKERS |-> NoRet]
    /\ before = [w \in WORKERS |-> NoBefore]
    /\ found = [w \in WORKERS |-> NoFound]
    /\ unit = NoUnit
    /\ rows = {}

\* the calls worker w may start on the patients of P
Calls(w, P) ==
    \E p \in P :
        \/ \E r \in REPORT_IDS, t \in TEXTS : CallAddText(w, p, r, t)
        \/ \E r \in REPORT_IDS, e \in EMBEDDINGS : CallAddImage(w, p, r, e)
        \/ \E q \in QUERIES, k \in TOP_KS : CallSearch(w, p, q, k)
        \/ \E v \in VECTORS, k \in TOP_KS : CallSearchByVector(w, p, v, k)
        \/ CallStats(w, p)

\* the steps of the call worker w runs, up to its result
Work(w) ==
    \/ LoadIndex(w)
    \/ LoadMeta(w)
    \/ AddTextMutate(w)
    \/ AddImageMutate(w)
    \/ SaveIndex(w)
    \/ SaveMeta(w)
    \/ SearchText(w)
    \/ SearchVector(w)
    \/ Stats(w)

Steps(w) == Work(w) \/ Return(w)

Faults ==
    \/ EncodeFails(1)
    \/ SaveInterrupted(1)
    \/ CorruptIndexFile("p1")
    \/ CorruptMetaFile("p1")
    \/ RemoveIndexFile("p1")
    \/ RemoveMetaFile("p1")
    \/ EmptyIndexFile("p1")
    \/ EmptyMetaFile("p1")
    \/ Redeploy

\* one worker, one call after the other, no fault
NextClean == Calls(1, {"p1"}) \/ Steps(1)
SpecClean == Init /\ [][NextClean]_vars

\* one worker, one call after the other, with faults and a redeployment
Next == Calls(1, {"p1"}) \/ Steps(1) \/ Faults
Spec == Init /\ [][Next]_vars

\* the calls of two workers that run at the same time on one patient
ConcCalls(w) ==
    \/ \E t \in TEXTS :
         /\ StoredLen("p1") + Len(Chunks(t)) <= MaxConcEntries
         /\ CallAddText(w, "p1", w, t)
    \/ /\ StoredLen("p1") + 1 <= MaxConcEntries
       /\ CallAddImage(w, "p1", w, Emb(IMAGE_VEC))
    \/ \E q \in QUERIES : CallSearch(w, "p1", q, MaxTopK)
    \/ CallSearchByVector(w, "p1", IMAGE_VEC, MaxTopK)
    \/ CallStats(w, "p1")

\* two workers, their steps interleaved in any order, no fault: worker 1 runs
\* call after call, worker 2 runs one call at any time beside it
NextConc == ConcCalls(1) \/ Steps(1) \/ ConcCalls(2) \/ Work(2)
SpecConc == Init /\ [][NextConc]_vars

----------------------------------------------------------------------------
(* Properties.                                                             *)

IsAdd(w) == call[w].op \in {"add_text", "add_image"}
IsSearch(w) == call[w].op \in {"search_text", "search_vector"}

\* worker w's add went through load, mutate and both writes, and returned
Saved(w) == pc[w] = "done" /\ IsAdd(w) /\ ret[w].status = "ok" /\ metadata[w] # <<>>

\* C1: from no persisted store, after any sequence of adds run one after the
\* other, get_patient_index_stats reports ntotal_vectors = metadata_len.
C1_StatsParity ==
    \A w \in WORKERS :
        (pc[w] = "done" /\ call[w].op = "stats")
            => /\ ret[w].status = "ok"
               /\ ret[w].stats.ntotal_vectors = ret[w].stats.metadata_len

\* a stats call that reports a store grown by text and image adds
C1_Witness ==
    \E w \in WORKERS :
        /\ pc[w] = "done" /\ call[w].op = "stats"
        /\ ret[w].stats.metadata_len = MaxEntries
        /\ \E i, j \in 1..Len(metadata[w]) :
             metadata[w][i].type = "text" /\ metadata[w][j].type = "image"

\* C2: after an add, every metadata record's chunk_id is its position in the
\* log and the position of its vector in the index (record i describes vector
\* i), also when the add recreated the index and kept the old metadata.
C2_RecordDescribesVector ==
    \A w \in WORKERS :
        Saved(w) =>
            LET recs == metaFile[call[w].patient].recs
                vecs == idxFile[call[w].patient].vecs
            IN  \A i \in 1..Len(recs) :
                    /\ recs[i].chunk_id = i - 1
                    /\ i <= Len(vecs)
                    /\ recs[i].type = "text" => vecs[i] = _pad_vector(Encode(recs[i].text))

\* the one chunk of a single-chunk add_text call
OneChunk(w) == Chunks(call[w].text)[1]

\* C3: two add_text calls on one patient that run at the same time, each
\* appending one chunk, are both in the persisted store afterwards.
C3_BothWritersPersist ==
    ( /\ Saved(1) /\ Saved(2)
      /\ call[1].op = "add_text" /\ call[2].op = "add_text"
      /\ call[1].patient = call[2].patient
      /\ Len(Chunks(call[1].text)) = 1 /\ Len(Chunks(call[2].text)) = 1 )
    => LET recs == metaFile[call[1].patient].recs
           vecs == idxFile[call[1].patient].vecs
           Holds(i, w) == /\ recs[i].report_id = call[w].report_id
                          /\ recs[i].type = "text"
                          /\ recs[i].text = OneChunk(w)
                          /\ i <= Len(vecs)
                          /\ vecs[i] = _pad_vector(Encode(OneChunk(w)))
       IN  \E i, j \in 1..Len(recs) : i # j /\ Holds(i, 1) /\ Holds(j, 2)

\* the patient's two files as they stand now, for the call of worker w
Now(w) == Snapshot(call[w].patient)

\* the pair worker w's add hands to _save_index_and_meta, once written
NewState(w) == [idx |-> WrittenIdx(index[w]), meta |-> WrittenMeta(metadata[w])]

\* C4: a save that is interrupted leaves the persisted pair entirely the
\* previous state or entirely the new state.
C4_SaveAllOrNothing ==
    \A w \in WORKERS :
        (pc[w] = "done" /\ IsAdd(w) /\ ret[w].error = "save")
            => Now(w) = before[w] \/ Now(w) = NewState(w)

\* the store a search began with has no file pair, no vector or no record
EmptyBefore(w) ==
    \/ before[w].idx.kind = "absent"
    \/ before[w].meta.kind = "absent"
    \/ /\ before[w].meta.kind = "json"
       /\ \/ before[w].idx.kind = "index" /\ before[w].idx.vecs = <<>>
          \/ before[w].meta.recs = <<>>

\* C5: a search on a patient with no persisted store, or with a store of zero
\* vectors or an empty metadata log, returns the empty list and raises
\* nothing, for every query and every top_k.
C5_EmptyStoreSearch ==
    \A w \in WORKERS :
        (pc[w] = "done" /\ IsSearch(w) /\ EmptyBefore(w))
            => ret[w].status = "ok" /\ ret[w].results = <<>>

\* a text search with top_k = 0 that ended on an index file of no vector
\* beside a non-empty log, and so was decided by the test of rag.py:156
C5_Witness ==
    \E w \in WORKERS :
        /\ pc[w] = "done" /\ call[w].op = "search_text" /\ call[w].top_k = 0
        /\ before[w].idx.kind = "index" /\ before[w].idx.vecs = <<>>
        /\ before[w].meta.kind = "json" /\ before[w].meta.recs # <<>>

\* the store worker w's search began with is what one single-chunk add_text
\* of the query string leaves on an empty store
SingleChunkStore(w) ==
    /\ before[w].idx.kind = "index" /\ Len(before[w].idx.vecs) = 1
    /\ before[w].meta.kind = "json" /\ Len(before[w].meta.recs) = 1
    /\ before[w].meta.recs[1].type = "text"
    /\ before[w].meta.recs[1].text = call[w].text

\* C6: after a single-chunk add_text on a patient with no store, a search that
\* loads the store from the files with that chunk as the query returns the
\* chunk's record first.
C6_RoundTrip ==
    \A w \in WORKERS :
        (pc[w] = "done" /\ call[w].op = "search_text" /\ call[w].top_k >= 1
         /\ SingleChunkStore(w))
            => /\ ret[w].status = "ok"
               /\ Len(ret[w].results) >= 1
               /\ ret[w].results[1] = before[w].meta.recs[1]
               /\ ret[w].results[1].chunk_id = 0

C6_Witness ==
    \E w \in WORKERS :
        /\ pc[w] = "done" /\ call[w].op = "search_text" /\ call[w].top_k = MaxTopK
        /\ SingleChunkStore(w)
        /\ Len(ret[w].results) = 1

\* the index file worker w's call began with holds vectors of another width
WidthMismatch(w) ==
    /\ before[w].idx.kind = "index"
    /\ before[w].idx.d # EMBED_DIM
    /\ before[w].meta.kind = "json"

\* C7: when the loaded index's width differs from W, every operation treats
\* the store as discarded and rebuilt empty, vector index and metadata log
\* together, and raises nothing.
C7_MismatchRebuildsEmpty ==
    \A w \in WORKERS :
        (pc[w] = "done" /\ WidthMismatch(w)
         /\ ret[w].error \notin {"encode", "save"}
         /\ ~(call[w].op = "add_text" /\ Chunks(call[w].text) = <<>>)
         /\ ~(call[w].op = "add_image" /\ call[w].embedding.none))
            => /\ ret[w].status = "ok"
               /\ IsSearch(w) => ret[w].results = <<>>
               /\ call[w].op = "stats" => ret[w].stats = NoStats
               /\ call[w].op = "add_text"
                    => /\ Now(w).meta.recs
                            = TextRecords(<<>>, call[w].report_id, Chunks(call[w].text))
                       /\ Len(Now(w).idx.vecs) = Len(Now(w).meta.recs)
               /\ call[w].op = "add_image"
                    => /\ Now(w).meta.recs = ImageRecord(<<>>, call[w].report_id)
                       /\ Len(Now(w).idx.vecs) = 1

\* the call of worker w is an add with nothing to add
EmptyInput(w) ==
    \/ call[w].op = "add_text" /\ Chunks(call[w].text) = <<>>
    \/ call[w].op = "add_image" /\ call[w].embedding.none

\* C8: add_text_to_index with a text of zero chunks and add_image_to_index
\* with a None embedding return without error and leave the patient's files
\* as they were, creating none.
C8_EmptyInputNoOp ==
    \A w \in WORKERS :
        (pc[w] = "done" /\ EmptyInput(w))
            => ret[w].status = "ok" /\ Now(w) = before[w]

\* a whitespace-only add_text returned on a patient that has no file
C8_Witness ==
    \E w \in WORKERS :
        /\ pc[w] = "done" /\ call[w].op = "add_text"
        /\ call[w].text # <<>> /\ Chunks(call[w].text) = <<>>
        /\ Now(w) = NoBefore

\* the metadata log _load_or_create_index hands out for the files the call
\* of worker w began with
LogBefore(w) ==
    IF before[w].idx.kind # "absent" /\ before[w].meta.kind = "json"
    THEN before[w].meta.recs ELSE <<>>

\* C9: add_text_to_index on a text of n >= 1 chunks appends exactly n records
\* of type "text" at the end of the log, in chunk order, with chunk_ids
\* L .. L+n-1, each with the given report_id and the chunk's text, and leaves
\* the earlier records as they were.
C9_AppendsTextRecords ==
    \A w \in WORKERS :
        (Saved(w) /\ call[w].op = "add_text")
            => LET recs == Now(w).meta.recs
                   chunks == Chunks(call[w].text)
                   L == Len(LogBefore(w))
               IN  /\ Len(recs) = L + Len(chunks)
                   /\ SubSeq(recs, 1, L) = LogBefore(w)
                   /\ \A i \in 1..Len(chunks) :
                        recs[L + i] = [chunk_id |-> L + i - 1,
                                       report_id |-> call[w].report_id,
                                       type |-> "text", text |-> chunks[i]]

\* a two-chunk text appended behind an earlier record
C9_Witness ==
    \E w \in WORKERS :
        /\ Saved(w) /\ call[w].op = "add_text"
        /\ Len(Chunks(call[w].text)) = 2
        /\ Len(LogBefore(w)) >= 1
        /\ Len(Now(w).meta.recs) = Len(LogBefore(w)) + 2

\* the number of entries worker w's add appends
Appended(w) == IF call[w].op = "add_text" THEN Len(Chunks(call[w].text)) ELSE 1

\* record r carries what worker w's add stores for its i-th entry
SameContent(r, w, i) ==
    /\ r.report_id = call[w].report_id
    /\ IF call[w].op = "add_text"
       THEN r.type = "text" /\ r.text = Chunks(call[w].text)[i]
       ELSE r.type = "image" /\ r.text = IMAGE_PLACEHOLDER

\* the vector worker w's add stores for its i-th entry
VectorOf(w, i) ==
    IF call[w].op = "add_text"
    THEN _pad_vector(Encode(Chunks(call[w].text)[i]))
    ELSE _pad_vector(call[w].embedding.vec)

\* the store worker w's add began with ends with the entries of the same add
RepeatsLastAdd(w) ==
    LET n == Appended(w)
        recs == before[w].meta.recs
        vecs == before[w].idx.vecs
    IN  /\ Len(recs) >= n /\ Len(vecs) = Len(recs)
        /\ \A i \in 1..n :
             /\ SameContent(recs[Len(recs) - n + i], w, i)
             /\ vecs[Len(vecs) - n + i] = VectorOf(w, i)

\* C10: no deduplication: a second add with the same patient, report_id and
\* content appends a second set of entries, so the vector count and the
\* metadata length grow on the second call as on the first.
C10_NoDeduplication ==
    \A w \in WORKERS :
        (Saved(w) /\ RepeatsLastAdd(w))
            => LET n == Appended(w)
                   recs == Now(w).meta.recs
                   vecs == Now(w).idx.vecs
               IN  /\ Len(vecs) = Len(before[w].idx.vecs) + n
                   /\ Len(recs) = Len(before[w].meta.recs) + n
                   /\ \A i \in 1..n :
                        /\ SameContent(recs[Len(recs) - n + i], w, i)
                        /\ SameContent(recs[Len(recs) - 2 * n + i], w, i)
                        /\ vecs[Len(vecs) - n + i] = vecs[Len(vecs) - 2 * n + i]

\* the same image added a second time
C10_Witness ==
    \E w \in WORKERS :
        /\ Saved(w) /\ RepeatsLastAdd(w)
        /\ call[w].op = "add_image"
        /\ Len(Now(w).meta.recs) = 2

----------------------------------------------------------------------------
(* The rows a search returns, rag.py:154-192.                              *)

\* worker w's search ran index.search and returned
Searched(w) == pc[w] = "done" /\ IsSearch(w) /\ ret[w].status = "ok" /\ found[w] # NoFound

\* the query vector of worker w's search, rag.py:159-160 and 181
QueryVec(w) ==
    IF call[w].op = "search_text" THEN _pad_vector(Encode(call[w].text))
    ELSE _pad_vector(call[w].embedding.vec)

\* the places of `indices` whose label names a record of the loaded log
Valid(w) ==
    { i \in 1..Len(found[w].indices) :
        0 <= found[w].indices[i] /\ found[w].indices[i] < Len(metadata[w]) }

\* how many valid places stand at or before place i
RankOf(w, i) == Cardinality({ j \in Valid(w) : j <= i })

\* the labels of `indices` are in ascending distance from the query
AscendingDistance(w) ==
    LET I == found[w].indices
        Dist(i) == L2(index[w].vecs[I[i] + 1], QueryVec(w))
    IN  \A i, j \in 1..Len(I) : (i < j /\ I[i] >= 0 /\ I[j] >= 0) => Dist(i) <= Dist(j)

\* C11: search_patient_index returns the metadata records at the positions
\* the nearest-neighbour search returned, in rank order (ascending distance),
\* and drops every returned position outside [0, len(metadata)): the -1
\* sentinel and the positions beyond the log of an index that holds more
\* vectors than the log has records.
C11_RecordsInRankOrder ==
    \A w \in WORKERS :
        (Searched(w) /\ call[w].op = "search_text")
            => /\ Len(ret[w].results) = Cardinality(Valid(w))
               /\ \A i \in Valid(w) :
                    ret[w].results[RankOf(w, i)] = metadata[w][found[w].indices[i] + 1]
               /\ AscendingDistance(w)

\* a text search that dropped a -1 sentinel and a position beyond the log,
\* and returned a record ranked after the dropped position
C11_Witness ==
    \E w \in WORKERS :
        /\ Searched(w) /\ call[w].op = "search_text"
        /\ \E i, j, k \in 1..Len(found[w].indices) :
             /\ found[w].indices[i] = -1
             /\ found[w].indices[j] >= Len(metadata[w])
             /\ j < k /\ k \in Valid(w)

\* C12: every record search_by_vector returns carries as `distance` the
\* distance the nearest-neighbour search reported for that record's position,
\* also when out-of-range or sentinel positions were dropped from the row.
C12_DistanceOfOwnPosition ==
    \A w \in WORKERS :
        (Searched(w) /\ call[w].op = "search_vector")
            => /\ Len(ret[w].results) = Cardinality(Valid(w))
               /\ \A i \in Valid(w) :
                    LET r == ret[w].results[RankOf(w, i)]
                        pos == found[w].indices[i]
                    IN  /\ r.distance = found[w].distances[i]
                        /\ r.distance = L2(index[w].vecs[pos + 1], QueryVec(w))
                        /\ r.chunk_id = metadata[w][pos + 1].chunk_id
                        /\ r.text = metadata[w][pos + 1].text

\* a vector search that dropped a position beyond the log ranked before a
\* returned record at another distance, and a -1 sentinel after it
C12_Witness ==
    \E w \in WORKERS :
        /\ Searched(w) /\ call[w].op = "search_vector"
        /\ \E i, j, k \in 1..Len(found[w].indices) :
             /\ found[w].indices[i] = -1
             /\ found[w].indices[j] >= Len(metadata[w])
             /\ j < k /\ k \in Valid(w)
             /\ found[w].distances[j] # found[w].distances[k]

\* the store worker w's call began with: both files readable, an index of
\* the current width and as many vectors as records
ParityBefore(w) ==
    /\ before[w].idx.kind = "index" /\ before[w].idx.d = EMBED_DIM
    /\ before[w].meta.kind = "json"
    /\ Len(before[w].idx.vecs) = Len(before[w].meta.recs)

\* C13: on a store in parity with n >= 1 entries, a search with top_k >= 1
\* returns exactly min(top_k, n) records and repeats none.
C13_ReturnsMinTopKN ==
    \A w \in WORKERS :
        ( /\ pc[w] = "done" /\ IsSearch(w) /\ ret[w].error # "encode"
          /\ ParityBefore(w) /\ Len(before[w].meta.recs) >= 1
          /\ call[w].top_k >= 1 )
        => /\ ret[w].status = "ok"
           /\ Len(ret[w].results) = Min(call[w].top_k, Len(before[w].meta.recs))
           /\ \A i, j \in 1..Len(ret[w].results) :
                i # j => ret[w].results[i].chunk_id # ret[w].results[j].chunk_id

\* a search that asks for two of the three entries of a store in parity
C13_Witness ==
    \E w \in WORKERS :
        /\ pc[w] = "done" /\ IsSearch(w) /\ ret[w].status = "ok" /\ ParityBefore(w)
        /\ Len(before[w].meta.recs) = MaxEntries
        /\ call[w].top_k = 2
        /\ Len(ret[w].results) = 2

----------------------------------------------------------------------------
(* _pad_vector on its own, rag.py:22-31: one call on a vector of 1 to      *)
(* 2 * EMBED_DIM components, under either text model.                      *)

\* the values a component takes
COMPONENTS == {0, 1}

\* the vectors of length 1 .. 2 * EMBED_DIM
PadInputs == UNION { [1..n -> COMPONENTS] : n \in 1..(2 * EMBED_DIM) }

\* no request is running and no patient has a store
NoStore ==
    /\ idxFile = [p \in PATIENTS |-> AbsentIdx]
    /\ metaFile = [p \in PATIENTS |-> AbsentMeta]
    /\ pc = [w \in WORKERS |-> "idle"]
    /\ call = [w \in WORKERS |-> NoCall]
    /\ index = [w \in WORKERS |-> NoIndex]
    /\ metadata = [w \in WORKERS |-> <<>>]
    /\ ret = [w \in WORKERS |-> NoRet]
    /\ before = [w \in WORKERS |-> NoBefore]
    /\ found = [w \in WORKERS |-> NoFound]
    /\ rows = {}

InitPad ==
    /\ TEXT_DIM \in {MINILM_DIM, WIDER_TEXT_DIM}
    /\ NoStore
    /\ \E vec \in PadInputs :
         unit = [NoUnit EXCEPT !.fn = "_pad_vector", !.pc = "call", !.vec = vec]

\* rag.py:22-31
PadVector ==
    /\ unit.fn = "_pad_vector" /\ unit.pc = "call"
    /\ unit' = [unit EXCEPT !.out = _pad_vector(unit.vec), !.pc = "return"]
    /\ UNCHANGED <<TEXT_DIM, idxFile, metaFile, pc, call, index, metadata, ret, before, found, rows>>

NextPad == PadVector

SpecPad == InitPad /\ [][NextPad]_vars

\* C14: _pad_vector returns a vector of exactly W = EMBED_DIM components for
\* every input of 1 to 2W components: the input itself at length W, its first
\* W components when longer, the input followed by zeros when shorter.
C14_PadToWidth ==
    (unit.fn = "_pad_vector" /\ unit.pc = "return")
        => LET n == Len(unit.vec)
               W == EMBED_DIM
           IN  /\ Len(unit.out) = W
               /\ n = W => unit.out = unit.vec
               /\ n > W => \A i \in 1..W : unit.out[i] = unit.vec[i]
               /\ n < W => /\ \A i \in 1..n : unit.out[i] = unit.vec[i]
                           /\ \A i \in (n + 1)..W : unit.out[i] = 0

\* a vector of 2W components, its two halves different, cut to its first W
C14_Witness ==
    /\ unit.fn = "_pad_vector" /\ unit.pc = "return"
    /\ Len(unit.vec) = 2 * EMBED_DIM
    /\ SubSeq(unit.vec, 1, EMBED_DIM) # SubSeq(unit.vec, EMBED_DIM + 1, 2 * EMBED_DIM)
    /\ Len(unit.out) = EMBED_DIM

----------------------------------------------------------------------------
(* _chunk_text on its own, rag.py:65-90: one call, its loop taken one      *)
(* iteration at a time, on every text of up to MaxTextLen characters and   *)
(* every max_chars and overlap of 0 .. MaxChunkChars.                      *)

MaxTextLen == 5
MaxChunkChars == 4

\* the characters of a text: two letters and the blank
CHARS == {"a", "b", " "}

ChunkTexts == UNION { [1..n -> CHARS] : n \in 0..MaxTextLen }

InitChunk ==
    /\ TEXT_DIM = MINILM_DIM
    /\ NoStore
    /\ \E text \in ChunkTexts, max_chars, overlap \in 0..MaxChunkChars :
         unit = [NoUnit EXCEPT !.fn = "_chunk_text", !.pc = "call", !.arg = text,
                               !.text = text, !.max_chars = max_chars,
                               !.overlap = overlap]

\* rag.py:65-78: up to the first test of the while loop
ChunkEnter ==
    /\ unit.fn = "_chunk_text" /\ unit.pc = "call"
    /\ unit' = IF unit.text = <<>> \/ Strip(unit.text) = <<>>
               THEN [unit EXCEPT !.pc = "return"]
               ELSE [unit EXCEPT !.text = Strip(unit.text),
                                 !.step = Step(unit.max_chars, unit.overlap),
                                 !.start = 0, !.pc = "loop"]
    /\ UNCHANGED <<TEXT_DIM, idxFile, metaFile, pc, call, index, metadata, ret, before, found, rows>>

\* ChunkIterate appending the window as it was cut, untrimmed
ChunkIterate_NoTrim ==
    /\ unit.fn = "_chunk_text" /\ unit.pc = "loop"
    /\ IF ~(unit.start < Len(unit.text))
       THEN unit' = [unit EXCEPT !.pc = "return"]
       ELSE LET end == Min(unit.start + unit.max_chars, Len(unit.text))
                chunk == Slice(unit.text, unit.start, end)
                chunks2 == IF Strip(chunk) # <<>>
                           THEN Append(unit.chunks, chunk) ELSE unit.chunks
                windows2 == IF chunk # <<>>
                            THEN Append(unit.windows, chunk) ELSE unit.windows
            IN  unit' = IF end >= Len(unit.text)
                        THEN [unit EXCEPT !.windows = windows2,
                                          !.chunks = chunks2, !.pc = "return"]
                        ELSE [unit EXCEPT !.windows = windows2,
                                          !.chunks = chunks2,
                                          !.start = @ + unit.step]
    /\ UNCHANGED <<TEXT_DIM, idxFile, metaFile, pc, call, index, metadata, ret, before, found, rows>>

\* rag.py:79-88: one pass of the while loop
ChunkIterate ==
    /\ unit.fn = "_chunk_text" /\ unit.pc = "loop"
    /\ IF ~(unit.start < Len(unit.text))
       THEN unit' = [unit EXCEPT !.pc = "return"]
       ELSE LET end == Min(unit.start + unit.max_chars, Len(unit.text))
                chunk == Slice(unit.text, unit.start, end)
                chunks2 == IF Strip(chunk) # <<>>
                           THEN Append(unit.chunks, Strip(chunk)) ELSE unit.chunks
                \* history: the non-empty values `chunk` took before the trim
                windows2 == IF chunk # <<>>
                            THEN Append(unit.windows, chunk) ELSE unit.windows
            IN  unit' = IF end >= Len(unit.text)
                        THEN [unit EXCEPT !.windows = windows2,
                                          !.chunks = chunks2, !.pc = "return"]
                        ELSE [unit EXCEPT !.windows = windows2,
                                          !.chunks = chunks2,
                                          !.start = @ + unit.step]
    /\ UNCHANGED <<TEXT_DIM, idxFile, metaFile, pc, call, index, metadata, ret, before, found, rows>>

NextChunk == ChunkEnter \/ ChunkIterate

SpecChunk == InitChunk /\ [][NextChunk]_vars

\* _chunk_text returned
ChunkReturned == unit.fn = "_chunk_text" /\ unit.pc = "return"

FirstChars(s, n) == SubSeq(s, 1, n)
LastChars(s, n) == SubSeq(s, Len(s) - n + 1, Len(s))

\* the last n characters of every string of `strs` are the first n of the next
OverlapBy(strs, n) ==
    \A i \in 1..(Len(strs) - 1) :
        /\ Len(strs[i]) >= n /\ Len(strs[i + 1]) >= n
        /\ LastChars(strs[i], n) = FirstChars(strs[i + 1], n)

\* no window text[start:end] of the call begins or ends with whitespace
NoBlankEdge ==
    \A i \in 1..Len(unit.windows) :
        ~IsSpace(unit.windows[i][1]) /\ ~IsSpace(unit.windows[i][Len(unit.windows[i])])

\* C15: for every text and every 0 <= O < C, each chunk _chunk_text returns
\* shares exactly O characters with its successor (its last O characters are
\* the first O of the next), also when a window begins or ends in whitespace
\* that the per-chunk trim removes.
C15_ChunksOverlap ==
    (ChunkReturned /\ unit.overlap < unit.max_chars)
        => OverlapBy(unit.chunks, unit.overlap)

\* C15 as the code has it: for every text and every 0 <= O < C, each window
\* text[start:end] shares exactly O characters with its successor, and so do
\* the chunks when no window begins or ends in whitespace.
C15_WindowsOverlap ==
    (ChunkReturned /\ unit.overlap < unit.max_chars)
        => /\ OverlapBy(unit.windows, unit.overlap)
           /\ NoBlankEdge => OverlapBy(unit.chunks, unit.overlap)

\* three windows that overlap by one character, one of them beginning with a
\* blank, returned as three chunks
C15_Witness ==
    /\ ChunkReturned
    /\ 1 <= unit.overlap /\ unit.overlap < unit.max_chars
    /\ Len(unit.windows) = 3 /\ Len(unit.chunks) = 3
    /\ \E i \in 1..3 : IsSpace(unit.windows[i][1])

----------------------------------------------------------------------------
(* Two patients, rag.py:34-37: worker 1 serves "p1" and worker 2 serves     *)
(* "p2", each running call after call, their steps interleaved in any      *)
(* order, no fault.                                                        *)

\* the calls worker w may start on patient p
IsoCalls(w, p) ==
    \/ \E t \in TEXTS :
         /\ StoredLen(p) + Len(Chunks(t)) <= MaxConcEntries
         /\ CallAddText(w, p, w, t)
    \/ /\ StoredLen(p) + 1 <= MaxConcEntries
       /\ CallAddImage(w, p, w, Emb(IMAGE_VEC))
    \/ \E q \in QUERIES : CallSearch(w, p, q, MaxTopK)
    \/ CallSearchByVector(w, p, IMAGE_VEC, MaxTopK)
    \/ CallStats(w, p)

NextIso == IsoCalls(1, "p1") \/ Steps(1) \/ IsoCalls(2, "p2") \/ Steps(2)
SpecIso == Init /\ [][NextIso]_vars

\* a step of worker w leaves the files of every patient but its own as they are
OwnFilesOnly(w) ==
    \A p \in PATIENTS :
        (pc'[w] # pc[w] /\ p # call[w].patient /\ p # call'[w].patient)
            => idxFile'[p] = idxFile[p] /\ metaFile'[p] = metaFile[p]

\* the patient's store is the one worker w's add began with, followed by the
\* entries of the add: what the add gives when nothing runs beside it
SequentialOutcome(w) ==
    LET n == Appended(w)
        recs == Now(w).meta.recs
        vecs == Now(w).idx.vecs
        L == Len(before[w].meta.recs)
    IN  /\ Len(recs) = L + n /\ Len(vecs) = Len(before[w].idx.vecs) + n
        /\ SubSeq(recs, 1, L) = before[w].meta.recs
        /\ SubSeq(vecs, 1, Len(vecs) - n) = before[w].idx.vecs
        /\ \A i \in 1..n :
             /\ SameContent(recs[L + i], w, i) /\ recs[L + i].chunk_id = L + i - 1
             /\ vecs[Len(vecs) - n + i] = VectorOf(w, i)

\* C16: operations on one patient have no effect on any other patient: an
\* add for patient A, alone or interleaved with operations on patient B,
\* leaves B's persisted index and metadata unchanged, and every interleaving
\* of writers on distinct patients ends in the stores that running them one
\* after the other gives.
C16_PatientsIsolated ==
    /\ [][\A w \in WORKERS : OwnFilesOnly(w)]_vars
    /\ [](\A w \in WORKERS : Saved(w) => SequentialOutcome(w))

\* two adds on two patients, both saved at the same time, each patient's
\* store at its full size
C16_Witness ==
    /\ Saved(1) /\ Saved(2)
    /\ call[1].patient # call[2].patient
    /\ \A w \in WORKERS : Len(Now(w).meta.recs) = MaxConcEntries

----------------------------------------------------------------------------
(* What an add keeps of the store it found, rag.py:40-62 and 102-123.      *)

\* a is the beginning of b
IsPrefix(a, b) == Len(a) <= Len(b) /\ SubSeq(b, 1, Len(a)) = a

\* C17: a patient's store only grows: over sequential operations the
\* persisted vector count and metadata length never decrease and no persisted
\* entry is removed or changed, also when an add runs the corrupt-index or
\* width-mismatch recovery.
C17_StoreOnlyGrows ==
    \A w \in WORKERS :
        (Saved(w) /\ before[w].idx.kind = "index" /\ before[w].meta.kind = "json")
            => /\ Len(Now(w).idx.vecs) >= Len(before[w].idx.vecs)
               /\ Len(Now(w).meta.recs) >= Len(before[w].meta.recs)
               /\ IsPrefix(before[w].idx.vecs, Now(w).idx.vecs)
               /\ IsPrefix(before[w].meta.recs, Now(w).meta.recs)

\* the two files worker w's call began with do not hold, both readable, a
\* different number of entries
FilesInSync(w) ==
    (before[w].idx.kind = "index" /\ before[w].meta.kind = "json")
        => Len(before[w].idx.vecs) = Len(before[w].meta.recs)

\* C18: _load_or_create_index never returns a pair whose vector count differs
\* from its metadata length: for every combination of the two files being
\* present, missing or unreadable, the index and the metadata it returns are
\* in sync.
C18_LoadReturnsSyncedPair ==
    \A w \in WORKERS :
        (pc[w] = "loaded" /\ FilesInSync(w))
            => ntotal(index[w]) = Len(metadata[w])

\* C19: every call of _save_index_and_meta is made with a vector index whose
\* count equals the length of the metadata log being saved, whatever state
\* the add loaded (clean, corrupt index file, or index of the wrong width).
C19_SaveCalledInParity ==
    \A w \in WORKERS :
        (pc[w] = "save_index" /\ FilesInSync(w))
            => ntotal(index[w]) = Len(metadata[w])

\* exactly one of the two files was missing when worker w's call began
OneMissing(w) == (before[w].idx.kind = "absent") # (before[w].meta.kind = "absent")

\* C20: if exactly one of a patient's two files is missing,
\* _load_or_create_index treats the store as absent and returns an empty
\* index of width W with an empty metadata log, without reading the file that
\* is present.
C20_OneMissingIsAbsent ==
    \A w \in WORKERS :
        OneMissing(w)
            => /\ pc[w] # "load_meta"
               /\ ret[w].error # "json.load"
               /\ pc[w] = "loaded"
                    => index[w] = IndexFlatL2(EMBED_DIM) /\ metadata[w] = <<>>

\* a load that found no index file beside a metadata file that does not parse
C20_Witness ==
    \E w \in WORKERS :
        /\ pc[w] = "loaded"
        /\ before[w].idx.kind = "absent" /\ before[w].meta.kind = "corrupt"

----------------------------------------------------------------------------
(* Unreadable files and a failing text model, rag.py:43-50, 104 and 159.   *)

\* worker w's call began with an index file that faiss.read_index cannot
\* read beside a metadata file that parses
CorruptIndexBefore(w) == before[w].idx.kind = "corrupt" /\ before[w].meta.kind = "json"

\* C21: if both files exist but the vector-index file cannot be read,
\* _load_or_create_index raises nothing for that failure, returns a fresh
\* empty index of width W, and still returns the metadata log read from the
\* metadata file.
C21_CorruptIndexKeepsLog ==
    \A w \in WORKERS :
        CorruptIndexBefore(w)
            => /\ ret[w].error # "json.load"
               /\ pc[w] = "load_meta" => index[w] = IndexFlatL2(EMBED_DIM)
               /\ pc[w] = "loaded"
                    => /\ index[w] = IndexFlatL2(EMBED_DIM)
                       /\ metadata[w] = before[w].meta.recs

\* a load that found an unreadable index file beside a log of two records
C21_Witness ==
    \E w \in WORKERS :
        /\ pc[w] = "loaded" /\ CorruptIndexBefore(w)
        /\ Len(metadata[w]) = 2

\* worker w's call began with both files present and a metadata file that
\* json.load cannot parse
CorruptMetaBefore(w) == before[w].idx.kind # "absent" /\ before[w].meta.kind = "corrupt"

\* C22: if a patient's metadata file exists but cannot be parsed, the
\* operation that loads it continues with both the vector index and the
\* metadata log initialised empty, and no error reaches the caller of any of
\* the five operations.
C22_CorruptMetaStartsEmpty ==
    \A w \in WORKERS :
        CorruptMetaBefore(w)
            => /\ ret[w].error # "json.load"
               /\ pc[w] = "loaded" => ntotal(index[w]) = 0 /\ metadata[w] = <<>>

----------------------------------------------------------------------------
(* A read beside an add on one patient, rag.py:40-62.                      *)

IsRead(w) == call[w].op \in {"search_text", "search_vector", "stats"}

\* the pair _load_or_create_index returns for the two files of `snap`
LoadOf(snap) ==
    IF snap.idx.kind # "absent" /\ snap.meta.kind # "absent"
    THEN [index |-> IF snap.idx.kind = "index"
                    THEN [d |-> snap.idx.d, vecs |-> snap.idx.vecs]
                    ELSE IndexFlatL2(EMBED_DIM),
          metadata |-> snap.meta.recs]
    ELSE [index |-> IndexFlatL2(EMBED_DIM), metadata |-> <<>>]

\* the patient's files between the two writes of worker a's save
HalfSaved(a) == [idx |-> WrittenIdx(index[a]), meta |-> before[a].meta]

\* worker r's read has loaded its pair while worker a's add on the same
\* patient, begun on or before the files r found, is saving or has saved
ReadBesideAdd(r, a) ==
    /\ r # a
    /\ IsRead(r) /\ pc[r] \in {"loaded", "done"}
    /\ IsAdd(a) /\ pc[a] \in {"save_index", "save_meta", "done"} /\ metadata[a] # <<>>
    /\ call[r].patient = call[a].patient
    /\ before[r] \in {before[a], HalfSaved(a), NewState(a)}

\* C23: a read that runs concurrently with one add on the same patient
\* always loads a consistent snapshot: the pair it loads is either the
\* complete state before the add or the complete state after it, never the
\* new vector index together with the old metadata log.
C23_ReadLoadsSnapshot ==
    \A r, a \in WORKERS :
        ReadBesideAdd(r, a)
            => \/ [index |-> index[r], metadata |-> metadata[r]] = LoadOf(before[a])
               \/ [index |-> index[r], metadata |-> metadata[r]]
                    = [index |-> index[a], metadata |-> metadata[a]]

----------------------------------------------------------------------------
(* A failing text model, rag.py:104 and 159.                               *)

\* C24: a failure of the text-embedding model inside add_text_to_index or
\* search_patient_index is not caught: it propagates to the caller (a call
\* that returns has encoded, and so saved or searched), and in
\* add_text_to_index it leaves the patient's persisted index and metadata
\* exactly as they were before the call.
C24_EncodeFailurePropagates ==
    \A w \in WORKERS :
        pc[w] = "done"
            => /\ ret[w].error = "encode"
                    => /\ ret[w].status = "raised"
                       /\ call[w].op \in {"add_text", "search_text"}
                       /\ Now(w) = before[w]
               /\ (call[w].op = "add_text" /\ ret[w].status = "ok"
                      /\ Chunks(call[w].text) # <<>>)
                    => metadata[w] # <<>> /\ Now(w) = NewState(w)
               /\ (call[w].op = "search_text" /\ ret[w].status = "ok"
                      /\ ~IsEmptyStore(index[w], metadata[w]))
                    => found[w] # NoFound

\* an add_text call on a store of one entry that ended in the encoder's error
C24_Witness ==
    \E w \in WORKERS :
        /\ pc[w] = "done" /\ call[w].op = "add_text" /\ ret[w].error = "encode"
        /\ Len(before[w].meta.recs) = 1 /\ Len(before[w].idx.vecs) = 1

----------------------------------------------------------------------------
(* The empty vector, rag.py:22-31, 127-150 and 173-182.                    *)

\* worker w's call was given a vector of no component
EmptyVectorCall(w) ==
    /\ call[w].op \in {"add_image", "search_vector"}
    /\ ~call[w].embedding.none /\ call[w].embedding.vec = <<>>

\* C25: an empty (zero-length) embedding vector is rejected before it reaches
\* _pad_vector: add_image_to_index and search_by_vector called with an empty
\* vector add no entry to the store and run no search with an all-zero
\* vector.
C25_EmptyVectorRejected ==
    \A w \in WORKERS :
        (pc[w] = "done" /\ EmptyVectorCall(w) /\ ret[w].error # "save")
            => /\ Now(w) = before[w]
               /\ found[w] = NoFound

----------------------------------------------------------------------------
(* The chunks and the loop of _chunk_text, rag.py:65-90.                   *)

\* C26: for every text and every C >= 1 and O >= 0, every chunk _chunk_text
\* returns is non-empty, has no leading or trailing whitespace and has length
\* at most C; empty or whitespace-only text yields an empty list; and the
\* last window ends exactly at the end of the stripped text.
C26_ChunksTrimmedAndBounded ==
    (ChunkReturned /\ unit.max_chars >= 1)
        => /\ \A i \in 1..Len(unit.chunks) :
                LET c == unit.chunks[i]
                IN  /\ c # <<>>
                    /\ ~IsSpace(c[1]) /\ ~IsSpace(c[Len(c)])
                    /\ Len(c) <= unit.max_chars
           /\ Strip(unit.arg) = <<>> => unit.chunks = <<>> /\ unit.windows = <<>>
           /\ Strip(unit.arg) # <<>>
                => LET last == unit.windows[Len(unit.windows)]
                   IN  /\ unit.windows # <<>>
                       /\ last = LastChars(Strip(unit.arg), Len(last))
                       /\ unit.start + Len(last) = Len(Strip(unit.arg))

\* a text cut into three windows, one of them all blank and dropped, one of
\* them trimmed
C26_Witness ==
    /\ ChunkReturned /\ unit.max_chars >= 1
    /\ Len(unit.windows) = 3 /\ Len(unit.chunks) = 2
    /\ \E i \in 1..2 : \A j \in 1..3 : unit.chunks[i] # unit.windows[j]

\* the loop is scheduled until it ends: the call is not abandoned half-way
SpecChunkFair == InitChunk /\ [][NextChunk]_vars /\ WF_vars(NextChunk)

\* the step the claim names: C - O when O < C, and C when O >= C
NamedStep == IF unit.overlap < unit.max_chars
             THEN unit.max_chars - unit.overlap ELSE unit.max_chars

\* C27: _chunk_text terminates for every text and every pair of chunk size C
\* and overlap O: the start offset strictly increases on every iteration, with
\* step C - O when O < C and step C when O >= C.
C27_ChunkTextTerminates ==
    /\ [](unit.pc = "loop" => unit.step = NamedStep /\ unit.step > 0)
    /\ [][(unit.pc = "loop" /\ unit'.pc = "loop") => unit'.start > unit.start]_vars
    /\ <>ChunkReturned

----------------------------------------------------------------------------
(* The relational rows of the reports, reports.py:79-94 and 317-335: an     *)
(* upload commits a row and then indexes under the row's id; delete_report *)
(* deletes a row.                                                          *)

\* db.add(db_report); db.commit(), reports.py:90-92
CommitReport(r) ==
    /\ r \notin rows
    /\ rows' = rows \cup {r}
    /\ UNCHANGED <<TEXT_DIM, idxFile, metaFile, pc, call, index, metadata, ret, before,
                   found, unit>>

\* DeleteReport removing the patient's two files with the row
DeleteReport_PurgesIndex(r) ==
    /\ r \in rows
    /\ rows' = rows \ {r}
    /\ idxFile' = [idxFile EXCEPT !["p1"] = AbsentIdx]
    /\ metaFile' = [metaFile EXCEPT !["p1"] = AbsentMeta]
    /\ UNCHANGED <<TEXT_DIM, pc, call, index, metadata, ret, before, found, unit>>

\* delete_report, reports.py:317-335, for a doctor and a report that exists
DeleteReport(r) ==
    /\ r \in rows
    /\ rows' = rows \ {r}
    /\ UNCHANGED <<TEXT_DIM, idxFile, metaFile, pc, call, index, metadata, ret, before,
                   found, unit>>

\* the calls worker w may start: the adds under the id of a committed row
RowCalls(w) ==
    \/ \E r \in rows, t \in TEXTS :
         /\ StoredLen("p1") + Len(Chunks(t)) <= MaxConcEntries
         /\ CallAddText(w, "p1", r, t)
    \/ \E r \in rows :
         /\ StoredLen("p1") + 1 <= MaxConcEntries
         /\ CallAddImage(w, "p1", r, Emb(IMAGE_VEC))
    \/ \E q \in QUERIES : CallSearch(w, "p1", q, MaxTopK)
    \/ CallSearchByVector(w, "p1", IMAGE_VEC, MaxTopK)
    \/ CallStats(w, "p1")

NextRows ==
    \/ \E r \in REPORT_IDS : CommitReport(r)
    \/ \E r \in REPORT_IDS : DeleteReport(r)
    \/ RowCalls(1)
    \/ Steps(1)

SpecRows == Init /\ [][NextRows]_vars

\* C28: deleting a report through delete_report removes only the relational
\* row: the patient's vector index and metadata log are unchanged, so a later
\* search for that patient still returns the records at the positions the
\* nearest-neighbour search gave, those of the deleted report included.
C28_DeleteLeavesIndex ==
    /\ [][(rows' # rows /\ rows' \subseteq rows)
            => idxFile' = idxFile /\ metaFile' = metaFile]_vars
    /\ [](\A w \in WORKERS :
            (Searched(w) /\ call[w].op = "search_text")
                => /\ Len(ret[w].results) = Cardinality(Valid(w))
                   /\ \A i \in Valid(w) :
                        ret[w].results[RankOf(w, i)].report_id
                            = metadata[w][found[w].indices[i] + 1].report_id)

\* a search that returns a record of a report whose row is deleted
C28_Witness ==
    \E w \in WORKERS :
        /\ Searched(w) /\ call[w].op = "search_text"
        /\ \E i \in 1..Len(ret[w].results) : ret[w].results[i].report_id \notin rows

----------------------------------------------------------------------------
(* The query operations and the files, rag.py:154-201.                     *)

\* the step is one of a query operation of worker w, its start and its
\* return included
ReadStep(w) ==
    /\ pc'[w] # pc[w]
    /\ \/ IsRead(w)
       \/ call'[w].op \in {"search_text", "search_vector", "stats"}

\* C29: the query operations are read-only: search_patient_index,
\* search_by_vector and get_patient_index_stats never create, overwrite or
\* delete any patient's index or metadata file, also for a patient that has
\* no store, so any number of them between two adds does not change what the
\* second add sees.
C29_QueriesReadOnly ==
    /\ [][\A w \in WORKERS :
            ReadStep(w) => idxFile' = idxFile /\ metaFile' = metaFile]_vars
    /\ [](\A w \in WORKERS : (pc[w] = "done" /\ IsRead(w)) => Now(w) = before[w])

\* a query on a patient that has no store has returned and left no file
C29_Witness ==
    \E w \in WORKERS :
        /\ pc[w] = "done" /\ IsRead(w) /\ ret[w].status = "ok"
        /\ before[w] = NoBefore
        /\ idxFile[call[w].patient] = AbsentIdx /\ metaFile[call[w].patient] = AbsentMeta

----------------------------------------------------------------------------
(* Two adds at the same time on one patient, rag.py:58-62 and 94-150.      *)

\* C30: with two concurrent adds on the same patient that append different
\* numbers of entries, after both complete the persisted vector count equals
\* the persisted metadata length, for every interleaving of their two file
\* writes.
C30_ConcurrentAddsKeepParity ==
    ( /\ Saved(1) /\ Saved(2)
      /\ call[1].patient = call[2].patient
      /\ Appended(1) # Appended(2)
      /\ FilesInSync(1) /\ FilesInSync(2) )
    => Len(idxFile[call[1].patient].vecs) = Len(metaFile[call[1].patient].recs)

====
